---- MODULE Spec2Model ----
(***************************************************************************)
(* Availability computation of data_availability_dashboard.py (sections 1  *)
(* and 2 of the script): the criteria dictionary, the per-indicator        *)
(* detection of the valid disaggregation columns, the pandas groupby, and  *)
(* the result rows appended to availability_results.                       *)
(*                                                                         *)
(* A cell of a DataFrame is a string; the missing cell (pandas NaN/None)   *)
(* is the marker Null.  A row of df is a record with the columns           *)
(* Indicator, Value and the five disaggregation columns.  Rows are named   *)
(* by their position in df (1..Len(df)).                                   *)
(***************************************************************************)
EXTENDS Integers, Sequences, FiniteSets, TLC

\* ---------------------------------------------------------------- bounds
MaxRecords == 2
MaxCriteria == 2
MaxYears == 2

\* ------------------------------------------------------------- constants
Null == "NaN"
NotApplicable == "Not applicable"
NotDisaggregated == "N/A (Not Disaggregated)"
inf == 0 - 1

disaggregation_cols == <<"Age", "group", "Area", "Sex", "Nationality">>

\* The cells the inputs are drawn from, in the order Python compares strings.
ValueOrder == <<"A", "B", "Male", "Not applicable", "Urban">>

Indicators == {"A", "B"}
CriteriaIndicators == {"A"}
ValueCells == {Null, "1.0"}

CellValues(col) ==
    IF col = "Area" THEN {Null, NotApplicable, "Urban"}
    ELSE IF col = "Sex" THEN {Null, "Male"}
    ELSE {Null}

Rows ==
    [Indicator : Indicators, Value : ValueCells,
     Age : CellValues("Age"), group : CellValues("group"),
     Area : CellValues("Area"), Sex : CellValues("Sex"),
     Nationality : CellValues("Nationality")]

CriteriaRows == [Indicator : CriteriaIndicators, years : 1..MaxYears]

SeqUpTo(S, n) == UNION {[1..k -> S] : k \in 0..n}

\* ------------------------------------------------------- pandas helpers
Range(s) == {s[k] : k \in DOMAIN s}

notna(v) == v # Null

astype_str(v) == IF v = Null THEN "nan" ELSE v

Rank(v) == CHOOSE k \in DOMAIN ValueOrder : ValueOrder[k] = v

\* Mutant of to_dict: an earlier entry for a key is kept, later ones ignored.
RECURSIVE to_dict_first_wins(_)
to_dict_first_wins(tbl) ==
    IF tbl = << >> THEN << >>
    ELSE LET n == Len(tbl)
             d == to_dict_first_wins(SubSeq(tbl, 1, n - 1))
             k == tbl[n].Indicator
         IN IF k \in DOMAIN d THEN d
            ELSE [x \in (DOMAIN d) \cup {k} |-> IF x = k THEN tbl[n].years ELSE d[x]]

\* Series.to_dict() after set_index: the entries are written in table order,
\* a later entry for the same key replaces the earlier one.
RECURSIVE to_dict(_)
to_dict(tbl) ==
    IF tbl = << >> THEN << >>
    ELSE LET n == Len(tbl)
             d == to_dict(SubSeq(tbl, 1, n - 1))
             k == tbl[n].Indicator
         IN [x \in (DOMAIN d) \cup {k} |-> IF x = k THEN tbl[n].years ELSE d[x]]

dict_get(d, k, default) == IF k \in DOMAIN d THEN d[k] ELSE default

\* Mutant of unique: the distinct values in ascending order (sorted(set(s))).
RECURSIVE SortCells(_)
SortCells(S) ==
    IF S = {} THEN << >>
    ELSE LET m == CHOOSE x \in S : \A y \in S : Rank(x) <= Rank(y)
         IN <<m>> \o SortCells(S \ {m})

unique_sorted(s) == SortCells(Range(s))

\* Series.unique(): the distinct values in order of first appearance.
RECURSIVE unique(_)
unique(s) ==
    IF s = << >> THEN << >>
    ELSE LET n == Len(s)
             u == unique(SubSeq(s, 1, n - 1))
         IN IF s[n] \in Range(u) THEN u ELSE Append(u, s[n])

IndicatorColumn(d) == [k \in DOMAIN d |-> d[k].Indicator]

\* df[df['Indicator'] == indicator_name]: the positions of the matching rows.
df_indicator(d, name) == {k \in DOMAIN d : d[k].Indicator = name}

\* The test of line 98 on one column of the indicator's rows.
IsValidCol(d, idx, col) ==
    /\ \E k \in idx : notna(d[k][col])
    /\ \E k \in idx : astype_str(d[k][col]) # NotApplicable

valid_disaggregation_cols(d, idx) ==
    SelectSeq(disaggregation_cols, LAMBDA col : IsValidCol(d, idx, col))

grouping_cols(valid) == <<"Indicator">> \o valid

KeyOf(row, cols) == [c \in DOMAIN cols |-> row[cols[c]]]

\* Ascending order of group keys: tuples compared position by position.
CellLess(a, b) == Rank(a) < Rank(b)

RECURSIVE KeyLessFrom(_, _, _)
KeyLessFrom(a, b, p) ==
    IF p > Len(a) THEN FALSE
    ELSE IF a[p] = b[p] THEN KeyLessFrom(a, b, p + 1)
    ELSE CellLess(a[p], b[p])

KeyLess(a, b) == KeyLessFrom(a, b, 1)

RECURSIVE SortKeys(_)
SortKeys(ks) ==
    IF ks = {} THEN << >>
    ELSE LET m == CHOOSE x \in ks : \A y \in ks \ {x} : KeyLess(x, y)
         IN <<m>> \o SortKeys(ks \ {m})

\* DataFrame.groupby(cols) with the defaults sort=True, dropna=True: a row
\* with a missing cell in a key column belongs to no group.
groupby(d, idx, cols) ==
    LET kept == {k \in idx : \A c \in DOMAIN cols : notna(d[k][cols[c]])}
        keys == SortKeys({KeyOf(d[k], cols) : k \in kept})
    IN [g \in DOMAIN keys |->
          [name |-> keys[g],
           group |-> {k \in kept : KeyOf(d[k], cols) = keys[g]}]]

\* Mutant of valid_years_count: the rows of the group are counted, null or not.
valid_years_count_all_rows(d, group) == Cardinality(group)

\* group['Value'].notna().sum()
valid_years_count(d, group) == Cardinality({k \in group : notna(d[k].Value)})

\* valid_years_count >= required_years, required_years possibly float('inf')
ge(count, required) == IF required = inf THEN FALSE ELSE count >= required

is_available(count, required) ==
    IF ge(count, required) THEN "Available" ELSE "Not Available"

\* Mutant of required_years: an indicator without criteria requires 0 years.
required_years_default_zero(cdict, indicator_name) == dict_get(cdict, indicator_name, 0)

required_years(cdict, indicator_name) == dict_get(cdict, indicator_name, inf)

\* dict(zip(grouping_cols, name))
group_values(cols, name) ==
    [c \in Range(cols) |-> name[CHOOSE p \in DOMAIN cols : cols[p] = c]]

\* Mutant of DimensionField: a group whose own value is "Not applicable" is
\* shown as not disaggregated.
DimensionField_per_group(gv, col) ==
    IF col \in DOMAIN gv /\ gv[col] # NotApplicable THEN gv[col] ELSE NotDisaggregated

\* group_values.get(col, 'N/A (Not Disaggregated)')
DimensionField(gv, col) == dict_get(gv, col, NotDisaggregated)

result_row(d, cdict, indicator_name, cols, g) ==
    LET gv == group_values(cols, g.name)
        count == valid_years_count(d, g.group)
        req == required_years(cdict, indicator_name)
    IN [Indicator |-> indicator_name,
        Required |-> req,
        Available |-> count,
        Availability |-> is_available(count, req),
        Age |-> DimensionField(gv, "Age"),
        group |-> DimensionField(gv, "group"),
        Area |-> DimensionField(gv, "Area"),
        Sex |-> DimensionField(gv, "Sex"),
        Nationality |-> DimensionField(gv, "Nationality")]

\* ----------------------------------------------------------------- state
VARIABLES
    df,                     \* the observation table (sheet 'data')
    criteria,               \* the criteria table (sheet 'criteria')
    pc,                     \* position of the script
    criteria_dict,          \* Indicator -> number of years
    unique_indicators,      \* df['Indicator'].unique()
    next_indicator,         \* position of the for loop in unique_indicators
    valid_cols,             \* indicator -> its valid_disaggregation_cols
    grouped_indicator,      \* indicator -> its groups, in iteration order
    availability_results,   \* the list of result rows
    df_availability,        \* the final table handed to the dashboard
    run,                    \* how many times the computation was started
    previous_results        \* df_availability of the previous run

vars == <<df, criteria, pc, criteria_dict, unique_indicators, next_indicator,
          valid_cols, grouped_indicator, availability_results,
          df_availability, run, previous_results>>

input == <<df, criteria>>

Init ==
    /\ df \in SeqUpTo(Rows, MaxRecords)
    /\ criteria \in SeqUpTo(CriteriaRows, MaxCriteria)
    /\ pc = "criteria"
    /\ criteria_dict = << >>
    /\ unique_indicators = << >>
    /\ next_indicator = 1
    /\ valid_cols = << >>
    /\ grouped_indicator = << >>
    /\ availability_results = << >>
    /\ df_availability = << >>
    /\ run = 1
    /\ previous_results = << >>

\* Lines 71-87: the criteria dictionary, the empty result list and the list
\* of indicators.
BuildCriteriaDict ==
    /\ pc = "criteria"
    /\ criteria_dict' = to_dict(criteria)
    /\ availability_results' = << >>
    /\ unique_indicators' = unique(IndicatorColumn(df))
    /\ next_indicator' = 1
    /\ pc' = "loop"
    /\ UNCHANGED <<input, valid_cols, grouped_indicator, df_availability,
                   run, previous_results>>

RECURSIVE EmitRows(_, _, _, _, _)
EmitRows(d, cdict, indicator_name, cols, groups) ==
    IF groups = << >> THEN << >>
    ELSE <<result_row(d, cdict, indicator_name, cols, Head(groups))>>
         \o EmitRows(d, cdict, indicator_name, cols, Tail(groups))

Extend(f, k, v) == [x \in (DOMAIN f) \cup {k} |-> IF x = k THEN v ELSE f[x]]

\* Lines 90-160: one iteration of the loop over unique_indicators.
ProcessIndicator ==
    /\ pc = "loop"
    /\ next_indicator <= Len(unique_indicators)
    /\ LET indicator_name == unique_indicators[next_indicator]
           idx == df_indicator(df, indicator_name)
           valid == valid_disaggregation_cols(df, idx)
           cols == grouping_cols(valid)
           groups == groupby(df, idx, cols)
       IN /\ valid_cols' = Extend(valid_cols, indicator_name, valid)
          /\ grouped_indicator' = Extend(grouped_indicator, indicator_name, groups)
          /\ availability_results' =
                availability_results
                \o EmitRows(df, criteria_dict, indicator_name, cols, groups)
    /\ next_indicator' = next_indicator + 1
    /\ UNCHANGED <<input, pc, criteria_dict, unique_indicators,
                   df_availability, run, previous_results>>

\* Line 163: the result list becomes the table of the dashboard.
BuildAvailabilityTable ==
    /\ pc = "loop"
    /\ next_indicator > Len(unique_indicators)
    /\ df_availability' = availability_results
    /\ pc' = "done"
    /\ UNCHANGED <<input, criteria_dict, unique_indicators, next_indicator,
                   valid_cols, grouped_indicator, availability_results,
                   run, previous_results>>

\* The script run a second time on the same two tables (lines 63-163): the
\* table of the first run is kept aside and every name is bound afresh.
Rerun ==
    /\ pc = "done"
    /\ run = 1
    /\ run' = 2
    /\ previous_results' = df_availability
    /\ pc' = "criteria"
    /\ criteria_dict' = << >>
    /\ unique_indicators' = << >>
    /\ next_indicator' = 1
    /\ valid_cols' = << >>
    /\ grouped_indicator' = << >>
    /\ availability_results' = << >>
    /\ df_availability' = << >>
    /\ UNCHANGED input

Next == BuildCriteriaDict \/ ProcessIndicator \/ BuildAvailabilityTable

Spec == Init /\ [][Next]_vars

NextTwice == Next \/ Rerun

SpecTwice == Init /\ [][NextTwice]_vars

\* ------------------------------------------------- vocabulary of the claims
Dims == Range(disaggregation_cols)

Genuine(v) == v # Null /\ v # NotApplicable

RecordsOf(i) == {k \in DOMAIN df : df[k].Indicator = i}

HasGenuine(i, col) == \E k \in RecordsOf(i) : Genuine(df[k][col])

Processed == DOMAIN valid_cols

RowsOf(i) == {k \in DOMAIN availability_results : availability_results[k].Indicator = i}

NonSentinel(row) == {col \in Dims : row[col] # NotDisaggregated}

InCriteria(i) == \E k \in DOMAIN criteria : criteria[k].Indicator = i

HasDuplicate == \E j, k \in DOMAIN criteria : j < k /\ criteria[j].Indicator = criteria[k].Indicator

LastEntry(i) == criteria[CHOOSE k \in DOMAIN criteria :
                    /\ criteria[k].Indicator = i
                    /\ \A j \in DOMAIN criteria : criteria[j].Indicator = i => j <= k]

NonNullValues(S) == Cardinality({k \in S : df[k].Value # Null})

\* C1: for every processed indicator and every dimension, the dimension is
\* among the indicator's valid columns if and only if one single record of the
\* indicator holds a value on it that is neither null nor "Not applicable".
C1_ActiveIffGenuineValue ==
    \A i \in Processed : \A col \in Dims :
        (col \in Range(valid_cols[i])) <=> HasGenuine(i, col)

\* C2: for every processed indicator the groups are pairwise disjoint and
\* together hold every record of the indicator, so their sizes add up to the
\* number of records of the indicator.
C2_PartitionsCoverRecords ==
    \A i \in DOMAIN grouped_indicator :
        LET gs == grouped_indicator[i]
        IN /\ UNION {gs[g].group : g \in DOMAIN gs} = RecordsOf(i)
           /\ \A g, h \in DOMAIN gs : g # h => gs[g].group \cap gs[h].group = {}

\* C3: every result row of an indicator that has no entry in the criteria
\* table carries the unbounded threshold and is "Not Available", whatever its
\* count of non-null Values.
C3_MissingCriteriaNotAvailable ==
    \A k \in DOMAIN availability_results :
        LET row == availability_results[k]
        IN ~InCriteria(row.Indicator) =>
              /\ row.Required = inf
              /\ row.Availability = "Not Available"

C3_Witness ==
    /\ pc = "done"
    /\ \E k \in DOMAIN df_availability :
          /\ ~InCriteria(df_availability[k].Indicator)
          /\ df_availability[k].Available >= MaxYears

\* C4: in every result row the count is the number of non-null Values among
\* the records that agree with the row on the indicator and on every
\* non-sentinel dimension, the threshold is the criteria lookup of the
\* indicator, and the status is "Available" exactly when count >= threshold
\* and "Not Available" otherwise.
C4_RowClassification ==
    \A k \in DOMAIN availability_results :
        LET row == availability_results[k]
            part == {r \in RecordsOf(row.Indicator) :
                        \A col \in NonSentinel(row) : df[r][col] = row[col]}
            lookup == IF row.Indicator \in DOMAIN criteria_dict
                      THEN criteria_dict[row.Indicator] ELSE inf
        IN /\ row.Available = NonNullValues(part)
           /\ row.Required = lookup
           /\ row.Availability \in {"Available", "Not Available"}
           /\ row.Availability = "Available"
                 <=> (row.Required # inf /\ row.Available >= row.Required)

C4_Witness ==
    /\ pc = "done"
    /\ \E j, k \in DOMAIN df_availability :
          /\ df_availability[j].Indicator = df_availability[k].Indicator
          /\ df_availability[j].Availability = "Available"
          /\ df_availability[k].Availability = "Not Available"
          /\ df_availability[k].Available = 0
    /\ \E r \in DOMAIN df : df[r].Value = Null

\* C5: for a dimension on which every record of the indicator is null or
\* "Not applicable" (in any mix), every result row of the indicator holds
\* the sentinel.
C5_InactiveDimensionSentinel ==
    \A k \in DOMAIN availability_results :
        LET row == availability_results[k]
        IN \A col \in Dims :
              ~HasGenuine(row.Indicator, col) => row[col] = NotDisaggregated

\* C6: the dimensions with a non-sentinel value are the same in every result
\* row of one indicator: they are the valid columns computed once for the
\* indicator.
C6_SameActiveSetInEveryRow ==
    \A j, k \in DOMAIN availability_results :
        LET a == availability_results[j]
            b == availability_results[k]
        IN a.Indicator = b.Indicator =>
              /\ NonSentinel(a) = NonSentinel(b)
              /\ NonSentinel(a) = Range(valid_cols[a.Indicator])

C6_Witness ==
    /\ pc = "done"
    /\ \E j, k \in DOMAIN df_availability :
          /\ j # k
          /\ df_availability[j].Indicator = df_availability[k].Indicator
          /\ df_availability[j].Area = NotApplicable
          /\ df_availability[k].Area = "Urban"
          /\ df_availability[j].Sex = NotDisaggregated

\* C7: once the run is over, an indicator whose records hold only null or
\* "Not applicable" on every dimension has exactly one result row, with the
\* sentinel on every dimension and the count of all its non-null Values.
C7_NoGenuineValueSingleRow ==
    pc = "done" =>
        \A i \in Range(unique_indicators) :
            (\A col \in Dims : ~HasGenuine(i, col)) =>
                /\ Cardinality(RowsOf(i)) = 1
                /\ \A k \in RowsOf(i) :
                      /\ NonSentinel(availability_results[k]) = {}
                      /\ availability_results[k].Available = NonNullValues(RecordsOf(i))

\* C8: a dimension with a genuine value among the indicator's records is
\* valid, and every record that is "Not applicable" on it lies in a group
\* keyed by the literal "Not applicable"; one "Not applicable" record plus one
\* "Urban" record give exactly two result rows.
C8_NotApplicableOwnPartition ==
    \A i \in Processed : \A col \in Dims :
        HasGenuine(i, col) =>
            /\ col \in Range(valid_cols[i])
            /\ \A r \in RecordsOf(i) :
                  df[r][col] = NotApplicable =>
                      \E g \in DOMAIN grouped_indicator[i] :
                          /\ r \in grouped_indicator[i][g].group
                          /\ \E k \in RowsOf(i) : availability_results[k][col] = NotApplicable
            /\ ({df[r][col] : r \in RecordsOf(i)} = {NotApplicable, "Urban"}
                    /\ Cardinality(RecordsOf(i)) = 2
                  => Cardinality(RowsOf(i)) = 2)

\* C9 as stated: a criteria table with a repeated Indicator is rejected, so
\* that no result row is ever produced from it.
C9_DuplicateCriteriaRejected ==
    HasDuplicate =>
        /\ availability_results = << >>
        /\ df_availability = << >>

\* C9 amended: a criteria table with a repeated Indicator is accepted; the
\* dictionary holds, for every indicator of the table, the number of years of
\* its last entry, and every result row of the indicator carries that number.
C9_LastWriteWins ==
    pc # "criteria" =>
        /\ DOMAIN criteria_dict = {criteria[k].Indicator : k \in DOMAIN criteria}
        /\ \A i \in DOMAIN criteria_dict : criteria_dict[i] = LastEntry(i).years
        /\ \A k \in DOMAIN availability_results :
              LET row == availability_results[k]
              IN InCriteria(row.Indicator) => row.Required = LastEntry(row.Indicator).years

C9_Witness ==
    /\ pc = "done"
    /\ HasDuplicate
    /\ Len(criteria) = 2
    /\ criteria[1].years < criteria[2].years
    /\ \E k \in DOMAIN df_availability :
          /\ df_availability[k].Indicator = criteria[1].Indicator
          /\ df_availability[k].Available = criteria[1].years
          /\ df_availability[k].Availability = "Not Available"

\* C10: the rows come out indicator by indicator in the order in which the
\* indicators first appear in the observation table, the rows of one
\* indicator in strictly ascending order of their keys, and a second run on
\* the same tables ends with the same table as the first.
FirstPos(i) == CHOOSE k \in RecordsOf(i) : \A j \in RecordsOf(i) : k <= j

RowKey(row) == [c \in DOMAIN disaggregation_cols |-> row[disaggregation_cols[c]]]

C10_DeterministicOrder ==
    pc = "done" =>
        /\ \A j, k \in DOMAIN df_availability :
              LET a == df_availability[j]
                  b == df_availability[k]
              IN j < k =>
                    /\ FirstPos(a.Indicator) <= FirstPos(b.Indicator)
                    /\ a.Indicator = b.Indicator => KeyLess(RowKey(a), RowKey(b))
        /\ run = 2 => df_availability = previous_results

C10_Witness ==
    /\ pc = "done"
    /\ run = 2
    /\ Len(df_availability) = 2
    /\ df_availability[1].Indicator = "B"
    /\ df_availability[2].Indicator = "A"
    /\ previous_results # << >>

====
